---- MODULE Spec2Model ----
(***************************************************************************)
(* Delivery optimizer (services/optimizer.ts), the three provider adapters *)
(* (TomTom, HERE, Google), the response cache and plan store they use, and *)
(* the POST /optimize handler, as one state machine.  One behaviour is one *)
(* request: either an HTTP request through the handler or a direct call of *)
(* DeliveryOptimizer.optimize().  Every awaited provider call is one step; *)
(* what the external routing/geocoding API answers is chosen               *)
(* nondeterministically at that step.                                      *)
(*                                                                         *)
(* Units: instants are milliseconds (as Date.getTime()), travel times are  *)
(* seconds, densities are thousandths (1.234 is 1234), because every       *)
(* density the code stores went through Math.round(x * 1000) / 1000.       *)
(***************************************************************************)
EXTENDS Integers, Sequences, FiniteSets, TLC

VARIABLES
    entry,                \* "http": through router.post('/optimize'); "direct": optimize(options)
    body,                 \* the request body / options object the caller supplied
    cacheEnabled,         \* CacheStore.enabled (config.cache.enabled)
    pc,                   \* position of the handler / of optimize()
    options,              \* the options optimize() destructured (defaults applied)
    gi,                   \* geocodeMultiple: index of the next input in allAddresses
    geocoded,             \* geocodeMultiple: results Map, address text -> GeocodedAddress
    targetAddresses,      \* optimize(): GeocodedAddress[] in caller order
    currentDepartureTime, \* optimize(): the simulated clock (a Date, ms)
    remainingTargets,     \* greedy branch: the working set
    candidates,           \* greedy branch: round trips computed in the current round
    ci,                   \* index of the target whose round trip is being computed
    outboundRoute,        \* calculateRoundTrip: the outbound segment awaiting its return leg
    roundTrip,            \* the RoundTripRoute most recently returned by calculateRoundTrip
    deliveries,           \* optimize(): OptimizedDelivery[]
    plan,                 \* the DeliveryPlan optimize() resolved with, or NoPlan
    error,                \* the Error optimize() rejected with, or NoError
    response,             \* HTTP status the handler answered with (0: none yet)
    planStore,            \* PlanStore: the set of plans written by save()
    routeCache,           \* CacheStore, namespace 'route': set of [key, data]
    geocodeCache,         \* CacheStore, namespace 'geocode': set of [key, data]
    nextId,               \* uuidv4(): number of ids handed out so far
    lastRequest,          \* observer: the RouteRequest most recently passed to calculateRoute
    outboundRequest,      \* observer: the RouteRequest that outboundRoute answers
    lastRound,            \* observer: the sorted candidates of the round that just selected
    routeCalls,           \* observer: number of provider.calculateRoute invocations
    geocodeCalls,         \* observer: number of provider.geocode invocations
    inFlight,             \* observer: provider calls optimize() has made and not yet seen settle
    networkRequests,      \* observer: number of fetch() calls the adapter has made
    enabled,              \* the provider ids p with config[p].enabled (an API key is set)
    providers,            \* ProviderManager.providers: Map from provider id to adapter
    constructed,          \* observer: constructor runs per provider id
    lastGet,              \* observer: argument and outcome of the latest getProvider call
    run,                  \* 1 in the first call with this body, 2 in the second
    previous,             \* observer: what the first call left when the second began
    files,                \* the cache directory: file key -> the CacheEntry written there
    ops,                  \* the CacheStore operation each caller is inside, if any
    written,              \* observer: the set() calls that have completed
    lastRead,             \* observer: the latest get() that has completed
    lookup,               \* observer: the latest geocode()/reverseGeocode() call
    dateNow,              \* Date.now(), ms
    lastRequestTime,      \* the adapter instance's lastRequestTime field
    waiting,              \* operations inside rateLimit(): caller -> [pc, wake]
    sent,                 \* observer: the instants at which the instance called fetch()
    probes,               \* two calculateRoute calls whose cache keys are compared
    probeKeys             \* the cache file keys generated for them

optimizeVars == <<entry, body, cacheEnabled, pc, options, gi, geocoded, targetAddresses,
          currentDepartureTime, remainingTargets, candidates, ci, outboundRoute,
          roundTrip, deliveries, plan, error, response, planStore, routeCache,
          geocodeCache, nextId, lastRequest, outboundRequest, lastRound, routeCalls, geocodeCalls,
          inFlight, networkRequests, enabled, providers, constructed, lastGet,
          run, previous, files, ops, written, lastRead, lookup>>

storeVars == <<files, ops, written, lastRead, lookup>>

registryVars == <<providers, constructed, lastGet>>

limiterVars == <<dateNow, lastRequestTime, waiting, sent>>

probeVars == <<probes, probeKeys>>

vars == <<optimizeVars, limiterVars, probeVars>>

----------------------------------------------------------------------------
(* Bounds and program constants *)

MaxTargets == 2

DefaultDeliveryDurationMinutes == 15

SchemaMaxTargets == 50

(* The rate limiter: operations that may be inside one adapter instance at *)
(* once, the requests followed, the clock's grain and the clock's horizon. *)
MaxCallers == 2

MaxRequests == 3

TickMs == 50

MaxTicks == 12

(* The cache store: the TTL in clock ticks, and the set() calls followed. *)
TtlTicks == 2

MaxSets == 2

(* The geocode() / reverseGeocode() calls followed on their own. *)
MaxLookups == 3

minRequestInterval == 250

Undefined == "undefined"
NoPlan    == [id |-> 0]
NoError   == [message |-> "none"]
NoSegment == [id |-> 0]
NoRequest == [leg |-> "none"]

Providers == {"tomtom", "here", "google"}

(* Address inputs a caller may send: two distinct address texts, one of them *)
(* also with a display label.                                                *)
DepotInput == [address |-> "D", label |-> Undefined]
TargetInputs ==
    { [address |-> "A", label |-> Undefined],
      [address |-> "B", label |-> Undefined],
      [address |-> "A", label |-> "x"] }

(* Where the external geocoders put each address text. *)
Position ==
    [a \in {"D", "A", "B"} |->
        CASE a = "D" -> [lat |-> 34, lng |-> -118]
          [] a = "A" -> [lat |-> 35, lng |-> -119]
          [] a = "B" -> [lat |-> 36, lng |-> -120]]

SeqsUpTo(S, n) == UNION { [1..k -> S] : k \in 0..n }

Max(a, b) == IF a >= b THEN a ELSE b

----------------------------------------------------------------------------
(* Dates.  An ISO-8601 string is its instant and its written form; parsing *)
(* keeps the instant, Date.prototype.toISOString always writes the         *)
(* canonical UTC form with milliseconds.                                   *)

Iso(ms, form) == [instant |-> ms, form |-> form]

DateParse(s) == s.instant

toISOString(ms) == Iso(ms, "utc-ms")

(* Math.round(x * 1000) / 1000 for x = num / den, in thousandths. *)
Round3(num, den) == (2000 * num + den) \div (2 * den)

----------------------------------------------------------------------------
(* What the external routing APIs may answer to one request: a congested   *)
(* route (travel time above the baseline), or a longer route on which the   *)
(* travel time is not above what the provider reports as baseline.          *)
(* Optional response fields are fields the record lacks.  TomTom and HERE   *)
(* report departure and arrival themselves, in local time with an offset.   *)

Has(r, f) == f \in DOMAIN r

ProviderClock(request, travelTime) ==
    [departureTime |-> Iso(DateParse(request.departureTime), "offset"),
     arrivalTime   |-> Iso(DateParse(request.departureTime) + travelTime * 1000, "offset")]

TomTomSummaries(request) ==
    { [lengthInMeters |-> 5000, travelTimeInSeconds |-> 700,
       noTrafficTravelTimeInSeconds |-> 600] @@ ProviderClock(request, 700),
      [lengthInMeters |-> 7000, travelTimeInSeconds |-> 800]
          @@ ProviderClock(request, 800) }

HereSummaries(request) ==
    { [length |-> 5000, duration |-> 700, baseDuration |-> 600,
       typicalDuration |-> 900] @@ ProviderClock(request, 700),
      [length |-> 7000, duration |-> 800, typicalDuration |-> 900]
          @@ ProviderClock(request, 800) }

GoogleLegs ==
    { [distance |-> 5000, duration |-> 600, duration_in_traffic |-> 700],
      [distance |-> 7000, duration |-> 900, duration_in_traffic |-> 800] }

RouteAnswers(provider, request) ==
    CASE provider = "tomtom" -> TomTomSummaries(request)
      [] provider = "here"   -> HereSummaries(request)
      [] provider = "google" -> GoogleLegs

(* Failed routing calls: a non-2xx response, or a response with no route. *)
RouteFailures == {"api-error", "no-route"}

(* Failed geocoding calls: non-2xx, zero results, first result outside the US. *)
GeocodeFailures == {"api-error", "zero-results", "not-us"}

----------------------------------------------------------------------------
(* The adapters' calculateRoute, from the parsed response to the segment.  *)

TomTomSegment(id, request, summary) ==
    LET noTrafficTime ==
            IF Has(summary, "noTrafficTravelTimeInSeconds")
            THEN summary.noTrafficTravelTimeInSeconds
            ELSE summary.travelTimeInSeconds
    IN  [id |-> id,
         origin |-> request.origin,
         destination |-> request.destination,
         distanceMeters |-> summary.lengthInMeters,
         travelTimeSeconds |-> summary.travelTimeInSeconds,
         noTrafficTravelTimeSeconds |-> noTrafficTime,
         trafficDensity |-> Round3(summary.travelTimeInSeconds, noTrafficTime),
         departureTime |-> summary.departureTime,
         arrivalTime |-> summary.arrivalTime]

HereSegment(id, request, summary) ==
    LET noTrafficTime ==
            IF Has(summary, "baseDuration") THEN summary.baseDuration
            ELSE IF Has(summary, "typicalDuration") THEN summary.typicalDuration
            ELSE summary.duration
    IN  [id |-> id,
         origin |-> request.origin,
         destination |-> request.destination,
         distanceMeters |-> summary.length,
         travelTimeSeconds |-> summary.duration,
         noTrafficTravelTimeSeconds |-> noTrafficTime,
         trafficDensity |-> Round3(summary.duration, noTrafficTime),
         departureTime |-> summary.departureTime,
         arrivalTime |-> summary.arrivalTime]

GoogleSegment(id, request, leg) ==
    LET travelTimeWithTraffic ==
            IF Has(leg, "duration_in_traffic") THEN leg.duration_in_traffic
            ELSE leg.duration
        noTrafficTime == leg.duration
        \* Math.max(1.0, raw), then rounded
        trafficDensity ==
            IF travelTimeWithTraffic < noTrafficTime THEN 1000
            ELSE Round3(travelTimeWithTraffic, noTrafficTime)
        departureDate == DateParse(request.departureTime)
        arrivalDate == departureDate + travelTimeWithTraffic * 1000
    IN  [id |-> id,
         origin |-> request.origin,
         destination |-> request.destination,
         distanceMeters |-> leg.distance,
         travelTimeSeconds |-> travelTimeWithTraffic,
         noTrafficTravelTimeSeconds |-> noTrafficTime,
         trafficDensity |-> trafficDensity,
         departureTime |-> toISOString(departureDate),
         arrivalTime |-> toISOString(arrivalDate)]

Segment(provider, id, request, answer) ==
    CASE provider = "tomtom" -> TomTomSegment(id, request, answer)
      [] provider = "here"   -> HereSegment(id, request, answer)
      [] provider = "google" -> GoogleSegment(id, request, answer)

(* Mutation of RouteCacheKey: every adapter puts the traffic model into    *)
(* the key, as passed.                                                     *)
RouteCacheKeyWithModel(provider, request) ==
    [provider |-> provider,
     origin |-> request.origin.coordinates,
     destination |-> request.destination.coordinates,
     departureTime |-> request.departureTime,
     trafficModel |-> request.googleTrafficModel]

(* The object each adapter hashes into the cache file name. *)
RouteCacheKey(provider, request) ==
    IF provider = "google"
    THEN [provider |-> "google",
          origin |-> request.origin.coordinates,
          destination |-> request.destination.coordinates,
          departureTime |-> request.departureTime,
          trafficModel |-> IF request.googleTrafficModel = Undefined
                           THEN "best_guess" ELSE request.googleTrafficModel]
    ELSE [provider |-> provider,
          origin |-> request.origin.coordinates,
          destination |-> request.destination.coordinates,
          departureTime |-> request.departureTime]

GeocodeCacheKey(provider, input) ==
    [provider |-> provider, address |-> input.address, label |-> input.label]

(* The error an adapter's calculateRoute throws.  names: the address texts *)
(* the adapter puts into the message; stage: observer, which call threw.   *)
RouteError(provider, failure) ==
    [message |-> IF failure = "no-route"
                 THEN "No route found between the specified locations"
                 ELSE "Routing API error: <status> - <body>",
     names |-> {},
     stage |-> "route"]

(* Mutation of GeocodeError: geocode()'s own error, not wrapped by         *)
(* geocodeMultiple.                                                        *)
GeocodeErrorUnwrapped(input, failure) ==
    [message |-> "Geocoding API error: <status> - <body>",
     names |-> {},
     stage |-> "geocode"]

(* geocode()'s error as re-thrown by geocodeMultiple:                      *)
(* `Failed to geocode address "${input.address}": ${error.message}`.       *)
GeocodeError(input, failure) ==
    [message |->
         CASE failure = "zero-results" ->
                  "Failed to geocode address: No geocoding results found for address"
           [] failure = "not-us" ->
                  "Failed to geocode address: Address is not in the US"
           [] OTHER ->
                  "Failed to geocode address: Geocoding API error: <status> - <body>",
     names |-> {input.address},
     stage |-> "geocode"]

(* Mutation of Propagate: the error is caught and optimize() goes on to    *)
(* build a plan from what it has.                                          *)
PropagateSwallowed(e) == [pc |-> "dayType", error |-> e]

(* A throw inside optimize(): neither calculateRoundTrip nor optimize()    *)
(* has a try/catch, so the promise rejects with the error as thrown.       *)
Propagate(e) == [pc |-> "rejected", error |-> e]

(* Mutation of CacheSet: the entry is not kept. *)
CacheSetLost(cache, key, value) == cache

(* CacheStore.get / CacheStore.set on one namespace. *)
CacheHit(cache, key) == cacheEnabled /\ \E e \in cache : e.key = key

CacheGet(cache, key) == (CHOOSE e \in cache : e.key = key).data

CacheSet(cache, key, value) ==
    IF cacheEnabled
    THEN {e \in cache : e.key # key} \cup {[key |-> key, data |-> value]}
    ELSE cache

(* JSON.stringify of a key object: a property whose value is undefined is  *)
(* left out, the others are written with their names and values.  label is *)
(* the one property of a key object that may be undefined.                 *)
Stringify(data) ==
    [f \in {g \in DOMAIN data : ~(g = "label" /\ data[g] = Undefined)} |-> data[f]]

(* CacheStore.generateKey: `${prefix}_${sha256(JSON.stringify(data))}`, the *)
(* digest cut to 16 hex digits; two different texts are taken to have       *)
(* different digests.                                                       *)
generateKey(prefix, data) == [prefix |-> prefix, hashed |-> Stringify(data)]

----------------------------------------------------------------------------
(* Requests.  A caller may omit deliveryDurationMinutes and               *)
(* sortByTrafficDensity; an omitted field is a field the record lacks.     *)

NoFields == [f \in {} |-> f]

Bodies ==
    { base @@ d @@ s :
        base \in [depot : {DepotInput},
                  targets : SeqsUpTo(TargetInputs, MaxTargets),
                  firstDepartureTime : {Iso(0, "utc")},
                  provider : Providers,
                  googleTrafficModel : {Undefined}],
        d \in {NoFields, [deliveryDurationMinutes |-> 20]},
        s \in {NoFields, [sortByTrafficDensity |-> TRUE]} }

(* OptimizeRequestSchema.safeParse: success, and the data it yields.  zod  *)
(* objects drop the keys the schema does not declare.                      *)
SchemaAccepts(b) ==
    /\ Len(b.targets) >= 1
    /\ Len(b.targets) <= SchemaMaxTargets
    /\ Has(b, "deliveryDurationMinutes") => b.deliveryDurationMinutes > 0
    /\ b.provider \in {"tomtom", "here", Undefined}

SchemaData(b) ==
    [depot |-> b.depot,
     targets |-> b.targets,
     firstDepartureTime |-> b.firstDepartureTime,
     deliveryDurationMinutes |->
         IF Has(b, "deliveryDurationMinutes") THEN b.deliveryDurationMinutes
         ELSE DefaultDeliveryDurationMinutes,
     provider |-> b.provider]

(* The destructuring at the head of optimize(), defaults applied. *)
Destructure(o) ==
    [depot |-> o.depot,
     targets |-> o.targets,
     firstDepartureTime |-> o.firstDepartureTime,
     deliveryDurationMinutes |->
         IF Has(o, "deliveryDurationMinutes") THEN o.deliveryDurationMinutes
         ELSE DefaultDeliveryDurationMinutes,
     provider |-> o.provider,
     sortByTrafficDensity |->
         IF Has(o, "sortByTrafficDensity") THEN o.sortByTrafficDensity ELSE FALSE,
     googleTrafficModel |->
         IF Has(o, "googleTrafficModel") THEN o.googleTrafficModel ELSE Undefined]

NoOptions == [provider |-> Undefined]
NoPrevious == [networkRequests |-> 0]
NoEntry == [expiresAt |-> 0]
NoRead == [key |-> "none"]
NoLookup == [kind |-> "none"]
Idle == [pc |-> "idle"]
Null == [null |-> TRUE]

(* The cache files followed: two keys of one namespace. *)
FileKeys == {"route_1", "route_2"}

----------------------------------------------------------------------------
(* ProviderManager.  An adapter instance is its provider id and the number *)
(* of the constructor run that made it.                                    *)

NoAdapter == [name |-> "none", serial |-> 0]

NoGet == [type |-> "none", threw |-> FALSE, message |-> "", instance |-> NoAdapter]

(* config.google.enabled: the Google key is set or it is not. *)
GoogleKey == {{}, {"google"}}

(* The process exits at start-up unless TomTom or HERE has a key. *)
Configurations ==
    {e \cup g : e \in (SUBSET {"tomtom", "here"}) \ {{}}, g \in GoogleKey}

(* What a caller may pass as type: a provider id, nothing, an unknown id. *)
ProviderTypes == Providers \cup {Undefined, "mapbox"}

(* config.defaults.defaultProvider *)
DefaultProvider == IF "tomtom" \in enabled THEN "tomtom" ELSE "here"

Thrown(type, message) ==
    [type |-> type, threw |-> TRUE, message |-> message, instance |-> NoAdapter,
     providers |-> providers, constructed |-> constructed]

Returned(type, provider, map, runs) ==
    [type |-> type, threw |-> FALSE, message |-> "", instance |-> provider,
     providers |-> map, constructed |-> runs]

(* Mutation of getProvider: a new adapter is constructed on every call. *)
getProviderUncached(type) ==
    LET providerType == IF type = Undefined THEN DefaultProvider ELSE type
    IN  IF providerType \in Providers /\ providerType \notin enabled
        THEN Thrown(type, "API is not configured")
        ELSE IF providerType \in Providers
        THEN LET provider == [name |-> providerType,
                              serial |-> constructed[providerType] + 1]
             IN  Returned(type, provider, (providerType :> provider) @@ providers,
                          [constructed EXCEPT ![providerType] = @ + 1])
        ELSE Thrown(type, "Unknown provider type")

(* Mutation of getProvider: a provider without a key is replaced by the    *)
(* default provider.                                                       *)
getProviderFallback(type) ==
    LET asked == IF type = Undefined THEN DefaultProvider ELSE type
        providerType == IF asked \in Providers /\ asked \notin enabled
                        THEN DefaultProvider ELSE asked
    IN  IF providerType \in DOMAIN providers
        THEN Returned(type, providers[providerType], providers, constructed)
        ELSE IF providerType \in Providers
        THEN LET provider == [name |-> providerType,
                              serial |-> constructed[providerType] + 1]
             IN  Returned(type, provider, (providerType :> provider) @@ providers,
                          [constructed EXCEPT ![providerType] = @ + 1])
        ELSE Thrown(type, "Unknown provider type")

(* ProviderManager.getProvider(type): the outcome, and the map and the     *)
(* constructor counts after the call.                                      *)
getProvider(type) ==
    LET providerType == IF type = Undefined THEN DefaultProvider ELSE type
    IN  IF providerType \in Providers /\ providerType \notin enabled
        THEN Thrown(type, "API is not configured")
        ELSE IF providerType \in DOMAIN providers
        THEN Returned(type, providers[providerType], providers, constructed)
        ELSE IF providerType \in Providers
        THEN LET provider == [name |-> providerType,
                              serial |-> constructed[providerType] + 1]
             IN  Returned(type, provider, (providerType :> provider) @@ providers,
                          [constructed EXCEPT ![providerType] = @ + 1])
        ELSE Thrown(type, "Unknown provider type")

Outcome(got) ==
    [type |-> got.type, threw |-> got.threw, message |-> got.message,
     instance |-> got.instance]

(* The error getProvider throws. *)
ProviderError(got) == [message |-> got.message, names |-> {}, stage |-> "provider"]

(* The adapter's rate limiter.  Date.now() at the start of the behaviour is *)
(* far from the epoch, where lastRequestTime starts.                       *)
Callers == 1..MaxCallers

StartTime == 4 * minRequestInterval

Outside == [pc |-> "outside", wake |-> 0]

InitRequest ==
    /\ entry \in {"http", "direct"}
    /\ body \in Bodies
    /\ cacheEnabled \in BOOLEAN
    /\ pc = "start"
    /\ options = NoOptions
    /\ gi = 1
    /\ geocoded = NoFields
    /\ targetAddresses = <<>>
    /\ currentDepartureTime = 0
    /\ remainingTargets = <<>>
    /\ candidates = <<>>
    /\ ci = 1
    /\ outboundRoute = NoSegment
    /\ roundTrip = [target |-> Undefined]
    /\ deliveries = <<>>
    /\ plan = NoPlan
    /\ error = NoError
    /\ response = 0
    /\ planStore = {}
    /\ routeCache = {}
    /\ geocodeCache = {}
    /\ nextId = 0
    /\ lastRequest = NoRequest
    /\ outboundRequest = NoRequest
    /\ lastRound = <<>>
    /\ routeCalls = 0
    /\ geocodeCalls = 0
    /\ inFlight = {}
    /\ networkRequests = 0
    /\ providers = NoFields
    /\ constructed = [p \in Providers |-> 0]
    /\ lastGet = NoGet
    /\ run = 1
    /\ previous = NoPrevious
    /\ files = [k \in FileKeys |-> NoEntry]
    /\ ops = [c \in Callers |-> Idle]
    /\ written = {}
    /\ lastRead = NoRead
    /\ lookup = NoLookup

(* Every provider has its API key. *)
AllConfigured == enabled = Providers

(* The adapter has sent nothing yet. *)
LimiterIdle ==
    /\ dateNow = StartTime
    /\ lastRequestTime = 0
    /\ waiting = [c \in Callers |-> Outside]
    /\ sent = <<>>

NoProbes == probes = <<>> /\ probeKeys = <<>>

Init == InitRequest /\ AllConfigured /\ LimiterIdle /\ NoProbes

(* A process in which no optimize() is running. *)
NoRequestRunning ==
    /\ entry = "direct"
    /\ cacheEnabled
    /\ body.provider = "here"
    /\ body.targets = <<>>
    /\ DOMAIN body = {"depot", "targets", "firstDepartureTime", "provider",
                      "googleTrafficModel"}

requestVars == <<entry, body, cacheEnabled, enabled, run, previous, storeVars, limiterVars,
                 probeVars>>
geocodeVars == <<gi, geocoded, geocodeCache, geocodeCalls>>
loopVars    == <<currentDepartureTime, remainingTargets, candidates, ci, outboundRoute,
                 roundTrip, deliveries, outboundRequest, lastRound>>
routeVars   == <<routeCache, lastRequest, routeCalls>>
resultVars  == <<plan, error, response, planStore>>

----------------------------------------------------------------------------
(* optimize() runs on one thread of control: after a step it is either     *)
(* finished or suspended on the await of the one provider call it has just *)
(* made (geocodeMultiple's `await this.geocode(input)`, calculateRoundTrip's *)
(* two `await provider.calculateRoute(...)`).  index: the position of the  *)
(* input in allAddresses, or of the target in the loop.                    *)

(* Mutation of Issued: the geocodes of all inputs are started together     *)
(* (a Promise.all over the inputs) and the route calls likewise.           *)
IssuedTogether(position, g, c) ==
    IF position = "geocode"
    THEN {[kind |-> "geocode", leg |-> "none", index |-> i] :
             i \in g..(Len(body.targets) + 1)}
    ELSE IF position \in {"outbound", "return"}
    THEN {[kind |-> "route", leg |-> l, index |-> c] : l \in {"outbound", "return"}}
    ELSE {}

Issued(position, g, c) ==
    IF position = "geocode"
    THEN {[kind |-> "geocode", leg |-> "none", index |-> g]}
    ELSE IF position \in {"outbound", "return"}
    THEN {[kind |-> "route", leg |-> position, index |-> c]}
    ELSE {}

----------------------------------------------------------------------------
(* router.post('/optimize'), up to the first await inside optimize(), and  *)
(* a direct call of optimize().                                            *)

(* optimize() up to its first await: the destructuring, then               *)
(* providerManager.getProvider(providerType), which may throw.             *)
Enter(o) ==
    LET got == getProvider(o.provider)
    IN  /\ options' = o
        /\ providers' = got.providers
        /\ constructed' = got.constructed
        /\ lastGet' = Outcome(got)
        /\ IF got.threw
           THEN LET thrown == Propagate(ProviderError(got))
                IN  /\ error' = thrown.error
                    /\ pc' = thrown.pc
           ELSE /\ pc' = "geocode"
                /\ UNCHANGED error

Post ==
    /\ pc = "start"
    /\ entry = "http"
    /\ IF SchemaAccepts(body)
       THEN /\ Enter(Destructure(SchemaData(body)))
            /\ UNCHANGED response
       ELSE /\ response' = 400
            /\ pc' = "done"
            /\ UNCHANGED <<options, error, registryVars>>
    /\ UNCHANGED <<requestVars, geocodeVars, targetAddresses, loopVars, routeVars,
                   plan, planStore, nextId, networkRequests>>
    /\ inFlight' = Issued(pc', gi', ci')

Call ==
    /\ pc = "start"
    /\ entry = "direct"
    /\ Enter(Destructure(body))
    /\ UNCHANGED <<requestVars, geocodeVars, targetAddresses, loopVars, routeVars,
                   plan, response, planStore, nextId, networkRequests>>
    /\ inFlight' = Issued(pc', gi', ci')

----------------------------------------------------------------------------
(* Step 1 of optimize(): provider.geocodeMultiple([depot, ...targets]),    *)
(* one geocode() per step, followed (after the last one) by the lookups    *)
(* that build depotGeocoded and targetAddresses.                           *)

allAddresses == <<options.depot>> \o options.targets

GeocodedAddress(input) ==
    [address |-> input.address,
     label |-> input.label,
     coordinates |-> Position[input.address]]

(* results.set(input.address, geocoded) and the rest of the loop. *)
AfterGeocode(result) ==
    LET input == allAddresses[gi]
        results == (input.address :> result) @@ geocoded
        looked == [i \in 1..Len(options.targets) |-> results[options.targets[i].address]]
    IN  /\ geocoded' = results
        /\ geocodeCalls' = geocodeCalls + 1
        /\ gi' = gi + 1
        /\ IF gi < Len(allAddresses)
           THEN /\ pc' = "geocode"
                /\ UNCHANGED <<targetAddresses, currentDepartureTime, remainingTargets>>
           ELSE /\ targetAddresses' = looked
                /\ currentDepartureTime' = DateParse(options.firstDepartureTime)
                /\ remainingTargets' =
                       IF options.sortByTrafficDensity THEN looked ELSE <<>>
                /\ pc' = IF Len(looked) = 0 THEN "dayType" ELSE "outbound"
        /\ UNCHANGED <<requestVars, registryVars, options, candidates, ci, outboundRoute, roundTrip,
                       deliveries, outboundRequest, lastRound, routeVars, resultVars,
                       nextId>>
        /\ inFlight' = Issued(pc', gi', ci')

GeocodeHit ==
    /\ pc = "geocode"
    /\ LET key == GeocodeCacheKey(options.provider, allAddresses[gi])
       IN  /\ CacheHit(geocodeCache, key)
           /\ AfterGeocode(CacheGet(geocodeCache, key))
    /\ UNCHANGED <<geocodeCache, networkRequests>>

GeocodeFetched ==
    /\ pc = "geocode"
    /\ LET input == allAddresses[gi]
           key == GeocodeCacheKey(options.provider, input)
       IN  /\ ~CacheHit(geocodeCache, key)
           /\ geocodeCache' = CacheSet(geocodeCache, key, GeocodedAddress(input))
           /\ AfterGeocode(GeocodedAddress(input))
    /\ networkRequests' = networkRequests + 1

GeocodeFailed ==
    /\ pc = "geocode"
    /\ ~CacheHit(geocodeCache, GeocodeCacheKey(options.provider, allAddresses[gi]))
    /\ \E failure \in GeocodeFailures :
          LET thrown == Propagate(GeocodeError(allAddresses[gi], failure))
          IN  /\ error' = thrown.error
              /\ pc' = thrown.pc
    /\ geocodeCalls' = geocodeCalls + 1
    /\ networkRequests' = networkRequests + 1
    /\ UNCHANGED <<requestVars, registryVars, options, gi, geocoded, geocodeCache, targetAddresses,
                   loopVars, routeVars, plan, response, planStore, nextId>>
    /\ inFlight' = Issued(pc', gi', ci')

----------------------------------------------------------------------------
(* Step 2 of optimize(): calculateRoundTrip, one calculateRoute per step.  *)

depotGeocoded == geocoded[options.depot.address]

(* Mutation of OrderedTarget: the targets are walked from the end. *)
OrderedTargetReversed(i) == targetAddresses[Len(targetAddresses) - i]

(* const target = targetAddresses[i], i being 0-based in the code. *)
OrderedTarget(i) == targetAddresses[i + 1]

CurrentTarget ==
    IF options.sortByTrafficDensity THEN remainingTargets[ci] ELSE OrderedTarget(ci - 1)

(* Mutation of ReturnDepartureTime: minutes taken for seconds. *)
ReturnDepartureTimeInSeconds(outbound, deliveryDurationMinutes) ==
    toISOString(DateParse(outbound.arrivalTime) + deliveryDurationMinutes * 1000)

(* new Date(outboundArrival.getTime() + deliveryDurationMinutes * 60 * 1000) *)
ReturnDepartureTime(outbound, deliveryDurationMinutes) ==
    toISOString(DateParse(outbound.arrivalTime) + deliveryDurationMinutes * 60 * 1000)

(* The request calculateRoundTrip passes at this position. *)
RouteRequest ==
    IF pc = "outbound"
    THEN [leg |-> "outbound",
          origin |-> depotGeocoded,
          destination |-> CurrentTarget,
          departureTime |-> toISOString(currentDepartureTime),
          googleTrafficModel |-> options.googleTrafficModel]
    ELSE [leg |-> "return",
          origin |-> CurrentTarget,
          destination |-> depotGeocoded,
          departureTime |->
              ReturnDepartureTime(outboundRoute, options.deliveryDurationMinutes),
          googleTrafficModel |-> options.googleTrafficModel]

(* Mutation of RoundTripTrafficDensity: the mean is clamped to 1.0 again. *)
RoundTripTrafficDensityClamped(outbound, return) ==
    Max(1000, (outbound.trafficDensity + return.trafficDensity + 1) \div 2)

(* Math.round(((a + b) / 2) * 1000) / 1000 on thousandths. *)
RoundTripTrafficDensity(outbound, return) ==
    (outbound.trafficDensity + return.trafficDensity + 1) \div 2

(* requested: observer, the departure times of the two requests sent. *)
RoundTripRoute(target, outbound, return, requested) ==
    [target |-> target,
     outboundRoute |-> outbound,
     returnRoute |-> return,
     roundTripTrafficDensity |-> RoundTripTrafficDensity(outbound, return),
     requested |-> requested]

(* Mutation of TotalTime: the candidates are ranked by round-trip density. *)
TotalTimeByDensity(c) == c.roundTripTrafficDensity

(* The comparator's key: aTotalTime / bTotalTime. *)
TotalTime(c) == c.outboundRoute.travelTimeSeconds + c.returnRoute.travelTimeSeconds

(* Mutation of InsertCandidate: a candidate is put before the ones it ties *)
(* with.                                                                   *)
RECURSIVE InsertCandidateBeforeTies(_, _)
InsertCandidateBeforeTies(sorted, c) ==
    IF sorted = <<>> THEN <<c>>
    ELSE LET last == sorted[Len(sorted)]
         IN  IF TotalTime(last) - TotalTime(c) < 0
             THEN Append(sorted, c)
             ELSE Append(InsertCandidateBeforeTies(SubSeq(sorted, 1, Len(sorted) - 1), c),
                         last)

(* Array.prototype.sort with that comparator: stable, ascending. *)
RECURSIVE InsertCandidate(_, _)
InsertCandidate(sorted, c) ==
    IF sorted = <<>> THEN <<c>>
    ELSE LET last == sorted[Len(sorted)]
         IN  IF TotalTime(last) - TotalTime(c) <= 0
             THEN Append(sorted, c)
             ELSE Append(InsertCandidate(SubSeq(sorted, 1, Len(sorted) - 1), c), last)

RECURSIVE SortCandidates(_)
SortCandidates(cs) ==
    IF cs = <<>> THEN <<>>
    ELSE InsertCandidate(SortCandidates(SubSeq(cs, 1, Len(cs) - 1)), cs[Len(cs)])

(* remainingTargets.findIndex(t => t.address === selected.target.address), *)
(* 1-based; 0 stands for JavaScript's -1.                                  *)
FindIndex(remaining, selected) ==
    IF \E i \in 1..Len(remaining) : remaining[i].address = selected.target.address
    THEN CHOOSE i \in 1..Len(remaining) :
            /\ remaining[i].address = selected.target.address
            /\ \A j \in 1..(i - 1) : remaining[j].address # selected.target.address
    ELSE 0

(* Mutation of Splice: every entry with the selected address text is      *)
(* dropped (a filter by address instead of a splice at one index).         *)
SpliceAllMatching(remaining, index) ==
    LET at == IF index = 0 THEN Len(remaining) ELSE index
    IN  SelectSeq(remaining, LAMBDA t : t.address # remaining[at].address)

(* remainingTargets.splice(selectedIndex, 1); splice(-1, 1) drops the last. *)
Splice(remaining, index) ==
    LET at == IF index = 0 THEN Len(remaining) ELSE index
    IN  SubSeq(remaining, 1, at - 1) \o SubSeq(remaining, at + 1, Len(remaining))

(* Mutation of GreedyOrder: a 0-based order. *)
GreedyOrderZeroBased(ds) == Len(ds)

(* order: deliveries.length + 1 *)
GreedyOrder(ds) == Len(ds) + 1

(* order: i + 1 for the 0-based loop index i. *)
OrderedOrder(i) == i + 1

OptimizedDelivery(order, rt, clock, deliveryDurationMinutes) ==
    [order |-> order,
     target |-> [address |-> rt.target,
                 deliveryDurationMinutes |-> deliveryDurationMinutes],
     route |-> rt.outboundRoute,
     returnRoute |-> rt.returnRoute,
     roundTripTrafficDensity |-> rt.roundTripTrafficDensity,
     estimatedDepartureTime |-> toISOString(clock),
     estimatedArrivalTime |-> toISOString(DateParse(rt.outboundRoute.arrivalTime)),
     estimatedReturnTime |-> toISOString(DateParse(rt.returnRoute.arrivalTime)),
     requested |-> rt.requested]

(* Mutation of NextDepartureTime: the clock advances to the arrival at the *)
(* target, not to the return to the depot.                                 *)
NextDepartureTimeAtTarget(rt) == DateParse(rt.outboundRoute.arrivalTime)

(* currentDepartureTime = returnTime *)
NextDepartureTime(rt) == DateParse(rt.returnRoute.arrivalTime)

(* What optimize() does with the segment a calculateRoute call returned,   *)
(* up to its next await.                                                   *)
AfterRoute(segment, request) ==
    IF pc = "outbound"
    THEN /\ outboundRoute' = segment
         /\ outboundRequest' = request
         /\ pc' = "return"
         /\ UNCHANGED <<currentDepartureTime, remainingTargets, candidates, ci,
                        roundTrip, deliveries, lastRound>>
    ELSE LET rt == RoundTripRoute(CurrentTarget, outboundRoute, segment,
                       [outbound |-> outboundRequest.departureTime,
                        return |-> request.departureTime])
         IN  /\ roundTrip' = rt
             /\ UNCHANGED <<outboundRoute, outboundRequest>>
             /\ IF ~options.sortByTrafficDensity
                THEN /\ deliveries' = Append(deliveries,
                            OptimizedDelivery(OrderedOrder(ci - 1), rt,
                                currentDepartureTime, options.deliveryDurationMinutes))
                     /\ currentDepartureTime' = NextDepartureTime(rt)
                     /\ ci' = ci + 1
                     /\ pc' = IF ci < Len(targetAddresses) THEN "outbound" ELSE "dayType"
                     /\ UNCHANGED <<remainingTargets, candidates, lastRound>>
                ELSE IF ci < Len(remainingTargets)
                THEN /\ candidates' = Append(candidates, rt)
                     /\ ci' = ci + 1
                     /\ pc' = "outbound"
                     /\ lastRound' = <<>>
                     /\ UNCHANGED <<currentDepartureTime, remainingTargets, deliveries>>
                ELSE LET sorted == SortCandidates(Append(candidates, rt))
                         selected == sorted[1]
                         rest == Splice(remainingTargets,
                                        FindIndex(remainingTargets, selected))
                     IN  /\ remainingTargets' = rest
                         /\ deliveries' = Append(deliveries,
                                OptimizedDelivery(GreedyOrder(deliveries), selected,
                                    currentDepartureTime,
                                    options.deliveryDurationMinutes))
                         /\ currentDepartureTime' = NextDepartureTime(selected)
                         /\ candidates' = <<>>
                         /\ ci' = 1
                         /\ lastRound' = sorted
                         /\ pc' = IF Len(rest) > 0 THEN "outbound" ELSE "dayType"

RouteHit ==
    /\ pc \in {"outbound", "return"}
    /\ LET request == RouteRequest
           key == RouteCacheKey(options.provider, request)
       IN  /\ CacheHit(routeCache, key)
           /\ lastRequest' = request
           /\ AfterRoute(CacheGet(routeCache, key), request)
    /\ routeCalls' = routeCalls + 1
    /\ UNCHANGED <<requestVars, registryVars, options, geocodeVars, targetAddresses, routeCache,
                   resultVars, nextId, networkRequests>>
    /\ inFlight' = Issued(pc', gi', ci')

RouteFetched ==
    /\ pc \in {"outbound", "return"}
    /\ LET request == RouteRequest
           key == RouteCacheKey(options.provider, request)
       IN  /\ ~CacheHit(routeCache, key)
           /\ \E answer \in RouteAnswers(options.provider, request) :
                 LET segment == Segment(options.provider, nextId + 1, request, answer)
                 IN  /\ routeCache' = CacheSet(routeCache, key, segment)
                     /\ AfterRoute(segment, request)
           /\ lastRequest' = request
    /\ nextId' = nextId + 1
    /\ routeCalls' = routeCalls + 1
    /\ networkRequests' = networkRequests + 1
    /\ UNCHANGED <<requestVars, registryVars, options, geocodeVars, targetAddresses, resultVars>>
    /\ inFlight' = Issued(pc', gi', ci')

(* The adapter throws; the error is the one optimize() rejects with. *)
RouteFailed ==
    /\ pc \in {"outbound", "return"}
    /\ ~CacheHit(routeCache, RouteCacheKey(options.provider, RouteRequest))
    /\ \E failure \in RouteFailures :
          LET thrown == Propagate(RouteError(options.provider, failure))
          IN  /\ error' = thrown.error
              /\ pc' = thrown.pc
    /\ lastRequest' = RouteRequest
    /\ routeCalls' = routeCalls + 1
    /\ networkRequests' = networkRequests + 1
    /\ UNCHANGED <<requestVars, registryVars, options, geocodeVars, targetAddresses, loopVars,
                   routeCache, plan, response, planStore, nextId>>
    /\ inFlight' = Issued(pc', gi', ci')

----------------------------------------------------------------------------
(* Step 5 of optimize(): the totals, the day type, the plan.               *)

RECURSIVE SeqSum(_)
SeqSum(s) == IF s = <<>> THEN 0 ELSE s[Len(s)] + SeqSum(SubSeq(s, 1, Len(s) - 1))

TotalDistanceMeters(ds) ==
    SeqSum([i \in 1..Len(ds) |->
               ds[i].route.distanceMeters + ds[i].returnRoute.distanceMeters])

TotalTravelTimeSeconds(ds) ==
    SeqSum([i \in 1..Len(ds) |->
               ds[i].route.travelTimeSeconds + ds[i].returnRoute.travelTimeSeconds])

TotalNoTrafficTravelTimeSeconds(ds) ==
    SeqSum([i \in 1..Len(ds) |->
               ds[i].route.noTrafficTravelTimeSeconds
                   + ds[i].returnRoute.noTrafficTravelTimeSeconds])

(* Mutation of CumulativeTrafficDensity: the mean of the deliveries'       *)
(* round-trip densities.                                                   *)
CumulativeTrafficDensityAveraged(ds) ==
    IF ds = <<>> THEN 0
    ELSE SeqSum([i \in 1..Len(ds) |-> ds[i].roundTripTrafficDensity]) \div Len(ds)

(* The reduce over roundTripTrafficDensity; the plan's                     *)
(* Math.round(x * 1000) / 1000 leaves a sum of thousandths as it is.       *)
CumulativeTrafficDensity(ds) ==
    SeqSum([i \in 1..Len(ds) |-> ds[i].roundTripTrafficDensity])

(* Mutation of AverageTrafficDensity: the mean of the deliveries'          *)
(* round-trip densities.                                                   *)
AverageOfDeliveryDensities(ds) ==
    IF ds = <<>> THEN 1000 ELSE Round3(CumulativeTrafficDensity(ds), 1000 * Len(ds))

(* Math.round(Math.max(1.0, raw) * 1000) / 1000, raw being 1 when the      *)
(* baseline total is 0.                                                     *)
AverageTrafficDensity(ds) ==
    LET total == TotalTravelTimeSeconds(ds)
        baseline == TotalNoTrafficTravelTimeSeconds(ds)
    IN  IF baseline > 0 /\ total >= baseline THEN Round3(total, baseline) ELSE 1000

DeliveryPlan(id, dayType) ==
    [id |-> id,
     provider |-> options.provider,
     depot |-> depotGeocoded,
     firstDepartureTime |-> options.firstDepartureTime,
     dayType |-> dayType,
     deliveries |-> deliveries,
     totalDistanceMeters |-> TotalDistanceMeters(deliveries),
     totalTravelTimeSeconds |-> TotalTravelTimeSeconds(deliveries),
     totalNoTrafficTravelTimeSeconds |-> TotalNoTrafficTravelTimeSeconds(deliveries),
     cumulativeTrafficDensity |-> CumulativeTrafficDensity(deliveries),
     averageTrafficDensity |-> AverageTrafficDensity(deliveries)]

(* holidayService.getDayType(new Date(firstDepartureTime)): the modelled   *)
(* departure instants fall on a working day with no holiday configured.    *)
getDayType(date) == "weekday"

(* holidayService.getDayType resolves; optimize() returns the plan. *)
Finish ==
    /\ pc = "dayType"
    /\ plan' = DeliveryPlan(nextId + 1,
                             getDayType(DateParse(options.firstDepartureTime)))
    /\ nextId' = nextId + 1
    /\ pc' = "resolved"
    /\ UNCHANGED <<requestVars, registryVars, options, geocodeVars, targetAddresses, loopVars,
                   routeVars, error, response, planStore, networkRequests>>
    /\ inFlight' = Issued(pc', gi', ci')

(* The handler after optimize() resolved: planStore.save(plan), res.json. *)
Save ==
    /\ pc = "resolved"
    /\ entry = "http"
    /\ planStore' = planStore \cup {plan}
    /\ response' = 200
    /\ pc' = "done"
    /\ UNCHANGED <<requestVars, registryVars, options, geocodeVars, targetAddresses, loopVars,
                   routeVars, plan, error, nextId, networkRequests>>
    /\ inFlight' = Issued(pc', gi', ci')

(* optimize() rejected: asyncHandler passes the error to the error         *)
(* middleware of index.ts, which answers 500.                              *)
ErrorResponse ==
    /\ pc = "rejected"
    /\ entry = "http"
    /\ response' = 500
    /\ pc' = "done"
    /\ UNCHANGED <<requestVars, registryVars, options, geocodeVars, targetAddresses, loopVars,
                   routeVars, plan, error, planStore, nextId, networkRequests>>
    /\ inFlight' = Issued(pc', gi', ci')

----------------------------------------------------------------------------
(* PlanStore.get and PlanStore.list: a plan file is returned when          *)
(* DeliveryPlanSchema.parse accepts its content, and is otherwise null     *)
(* (get) or skipped (list).                                                *)

(* z.string().datetime(): UTC with a trailing Z, fraction optional; a      *)
(* numeric offset is refused.                                              *)
DatetimeParses(s) == s.form \in {"utc", "utc-ms"}

RouteSegmentParses(seg) ==
    /\ seg.distanceMeters > 0
    /\ seg.travelTimeSeconds > 0
    /\ seg.noTrafficTravelTimeSeconds > 0
    /\ seg.trafficDensity >= 1000
    /\ DatetimeParses(seg.departureTime)
    /\ DatetimeParses(seg.arrivalTime)

OptimizedDeliveryParses(d) ==
    /\ d.order > 0
    /\ d.target.deliveryDurationMinutes > 0
    /\ RouteSegmentParses(d.route)
    /\ RouteSegmentParses(d.returnRoute)
    /\ d.roundTripTrafficDensity >= 1000
    /\ DatetimeParses(d.estimatedDepartureTime)
    /\ DatetimeParses(d.estimatedArrivalTime)
    /\ DatetimeParses(d.estimatedReturnTime)

DeliveryPlanParses(p) ==
    /\ p.provider \in {"tomtom", "here"}
    /\ DatetimeParses(p.firstDepartureTime)
    /\ p.dayType \in {"weekday", "weekend", "holiday"}
    /\ \A i \in 1..Len(p.deliveries) : OptimizedDeliveryParses(p.deliveries[i])
    /\ p.totalDistanceMeters >= 0
    /\ p.totalTravelTimeSeconds >= 0
    /\ p.totalNoTrafficTravelTimeSeconds >= 0
    /\ p.cumulativeTrafficDensity >= 0
    /\ p.averageTrafficDensity >= 1000

(* NoPlan stands for null. *)
PlanStoreGet(id) ==
    IF \E p \in planStore : p.id = id /\ DeliveryPlanParses(p)
    THEN CHOOSE p \in planStore : p.id = id /\ DeliveryPlanParses(p)
    ELSE NoPlan

PlanStoreList == {p \in planStore : DeliveryPlanParses(p)}

Next ==
    \/ Post
    \/ Call
    \/ GeocodeHit
    \/ GeocodeFetched
    \/ GeocodeFailed
    \/ RouteHit
    \/ RouteFetched
    \/ RouteFailed
    \/ Finish
    \/ Save
    \/ ErrorResponse

Spec == Init /\ [][Next]_vars

----------------------------------------------------------------------------
(* rateLimit() of an adapter instance, entered by every operation that     *)
(* missed the cache (geocode, reverseGeocode, searchLocations,             *)
(* calculateRoute), from any request that holds the instance.  The         *)
(* operation calls fetch() in the continuation that rateLimit() resolves   *)
(* into, so the stamp and the request share their instant.                 *)

(* const now = Date.now(); ...; either await delay(...) or the stamp. *)
RateLimit(c) ==
    /\ waiting[c].pc = "outside"
    /\ Len(sent) + Cardinality({d \in Callers : waiting[d].pc = "delay"}) < MaxRequests
    /\ LET timeSinceLastRequest == dateNow - lastRequestTime
       IN  IF timeSinceLastRequest < minRequestInterval
           THEN /\ waiting' = [waiting EXCEPT ![c] =
                       [pc |-> "delay",
                        wake |-> dateNow + (minRequestInterval - timeSinceLastRequest)]]
                /\ UNCHANGED <<lastRequestTime, sent>>
           ELSE /\ lastRequestTime' = dateNow
                /\ sent' = Append(sent, dateNow)
                /\ UNCHANGED waiting
    /\ UNCHANGED <<dateNow, optimizeVars, probeVars>>

(* The timer of delay() fires (at its time or later): this.lastRequestTime *)
(* = Date.now(), rateLimit() resolves, the operation calls fetch().        *)
DelayElapsed(c) ==
    /\ waiting[c].pc = "delay"
    /\ dateNow >= waiting[c].wake
    /\ lastRequestTime' = dateNow
    /\ sent' = Append(sent, dateNow)
    /\ waiting' = [waiting EXCEPT ![c] = Outside]
    /\ UNCHANGED <<dateNow, optimizeVars, probeVars>>

Tick ==
    /\ dateNow < StartTime + MaxTicks * TickMs
    /\ dateNow' = dateNow + TickMs
    /\ UNCHANGED <<lastRequestTime, waiting, sent, optimizeVars, probeVars>>

(* One adapter instance and the operations on it; no optimize() is running. *)
InitLimiter == Init /\ NoRequestRunning

NextLimiter ==
    \/ \E c \in Callers : RateLimit(c)
    \/ \E c \in Callers : DelayElapsed(c)
    \/ Tick

SpecLimiter == InitLimiter /\ [][NextLimiter]_vars

----------------------------------------------------------------------------
(* The cache keys of calculateRoute as a function of the call: two calls,  *)
(* each on some adapter, and the file keys CacheStore derives for them.    *)
(* The requests are those optimize() can build: geocoded endpoints, a      *)
(* departure time written by toISOString, the caller's traffic model.      *)

TrafficModels == {Undefined, "best_guess", "pessimistic"}

ProbeEndpoints ==
    {GeocodedAddress(i) : i \in {DepotInput} \cup TargetInputs}

ProbeRequests ==
    [origin : ProbeEndpoints,
     destination : {e \in ProbeEndpoints : e.address \in {"D", "A"}},
     departureTime : {toISOString(0), toISOString(700000)},
     googleTrafficModel : TrafficModels]

RouteProbes == [provider : Providers, request : ProbeRequests]

InitKeys ==
    /\ InitRequest
    /\ NoRequestRunning
    /\ AllConfigured
    /\ LimiterIdle
    /\ probes \in [1..2 -> RouteProbes]
    /\ probeKeys = <<>>

(* cacheStore.get('route', cacheKey) of both calls, up to generateKey. *)
GenerateKeys ==
    /\ probeKeys = <<>>
    /\ probeKeys' = [i \in 1..2 |->
                       generateKey("route",
                           RouteCacheKey(probes[i].provider, probes[i].request))]
    /\ UNCHANGED <<probes, optimizeVars, limiterVars>>

NextKeys == GenerateKeys

SpecKeys == InitKeys /\ [][NextKeys]_vars

----------------------------------------------------------------------------
(* The provider registry under every configuration of API keys: one        *)
(* optimize() call of at most one target, and getProvider calls made by    *)
(* the other handlers (reverse geocoding, location search) at any time.    *)

GetProvider ==
    /\ \E type \in ProviderTypes :
          LET got == getProvider(type)
          IN  /\ providers' = got.providers
              /\ constructed' = got.constructed
              /\ lastGet' = Outcome(got)
    /\ UNCHANGED <<entry, body, cacheEnabled, pc, options, gi, geocoded, targetAddresses,
                   currentDepartureTime, remainingTargets, candidates, ci, outboundRoute,
                   roundTrip, deliveries, plan, error, response, planStore, routeCache,
                   geocodeCache, nextId, lastRequest, outboundRequest, lastRound,
                   routeCalls, geocodeCalls, inFlight, networkRequests, enabled,
                   run, previous, storeVars, limiterVars, probeVars>>

InitRegistry ==
    /\ InitRequest
    /\ enabled \in Configurations
    /\ Len(body.targets) = 2 <=> Has(body, "sortByTrafficDensity")
    /\ Len(body.targets) = 2 => cacheEnabled /\ entry = "direct"
    /\ ~Has(body, "deliveryDurationMinutes")
    /\ LimiterIdle
    /\ NoProbes

NextRegistry == Next \/ GetProvider

SpecRegistry == InitRegistry /\ [][NextRegistry]_vars

----------------------------------------------------------------------------
(* Two calls in a row with the same body and a cache that is enabled and   *)
(* whose entries have not reached expiresAt.                               *)

(* The same body is sent again after the first call completed with a plan: *)
(* the locals of optimize() start afresh, the cache files, the plan store, *)
(* the uuid source and the provider registry are those of the process.     *)
NextCall(b) ==
    /\ run = 1
    /\ cacheEnabled
    /\ \/ pc = "resolved" /\ entry = "direct"
       \/ pc = "done" /\ response = 200
    /\ body' = b
    /\ run' = 2
    /\ previous' = [plan |-> plan, routeCache |-> routeCache,
                    geocodeCache |-> geocodeCache,
                    networkRequests |-> networkRequests]
    /\ pc' = "start"
    /\ options' = NoOptions
    /\ gi' = 1
    /\ geocoded' = NoFields
    /\ targetAddresses' = <<>>
    /\ currentDepartureTime' = 0
    /\ remainingTargets' = <<>>
    /\ candidates' = <<>>
    /\ ci' = 1
    /\ outboundRoute' = NoSegment
    /\ roundTrip' = [target |-> Undefined]
    /\ deliveries' = <<>>
    /\ plan' = NoPlan
    /\ response' = 0
    /\ lastRequest' = NoRequest
    /\ outboundRequest' = NoRequest
    /\ lastRound' = <<>>
    /\ inFlight' = {}
    /\ UNCHANGED <<entry, cacheEnabled, error, planStore, routeCache, geocodeCache,
                   nextId, routeCalls, geocodeCalls, networkRequests, enabled,
                   registryVars, storeVars, limiterVars, probeVars>>

Again == NextCall(body)

InitWarm == Init /\ cacheEnabled

NextWarm == Next \/ Again

SpecWarm == InitWarm /\ [][NextWarm]_vars

----------------------------------------------------------------------------
(* Two calls in a row over the same cache directory, the second for the    *)
(* same addresses with other display labels on the targets.                *)

Relabelled(b) ==
    /\ b # body
    /\ DOMAIN b = DOMAIN body
    /\ \A f \in DOMAIN b \ {"targets"} : b[f] = body[f]
    /\ Len(b.targets) = Len(body.targets)
    /\ \A i \in 1..Len(b.targets) : b.targets[i].address = body.targets[i].address

AgainRelabelled == \E b \in Bodies : Relabelled(b) /\ NextCall(b)

InitLabels ==
    /\ Init
    /\ cacheEnabled
    /\ Len(body.targets) <= 1
    /\ ~Has(body, "deliveryDurationMinutes")

NextLabels == Next \/ AgainRelabelled

SpecLabels == InitLabels /\ [][NextLabels]_vars

----------------------------------------------------------------------------
(* The cache directory misbehaves: entries vanish or become unreadable,    *)
(* and fs.writeFile inside cacheStore.set rejects.                         *)

(* fs.writeFile rejected (ENOSPC, EACCES, ENOENT): cacheStore.set has no   *)
(* try/catch, so this is what the awaiting adapter method throws.          *)
CacheWriteError ==
    [message |-> "<errno>: <syscall> <path>", names |-> {}, stage |-> "cache"]

(* The same error thrown by geocode() and re-thrown by geocodeMultiple. *)
CacheWriteErrorWrapped(input) ==
    [message |-> "Failed to geocode address: <errno>: <syscall> <path>",
     names |-> {input.address},
     stage |-> "cache"]

(* A cache file is deleted, truncated or made unreadable: cacheStore.get   *)
(* catches whatever readFile or JSON.parse throws and returns null, which  *)
(* is what it returns for an entry that was never written.                 *)
Corrupt ==
    /\ \/ \E e \in routeCache :
             routeCache' = routeCache \ {e} /\ UNCHANGED geocodeCache
       \/ \E e \in geocodeCache :
             geocodeCache' = geocodeCache \ {e} /\ UNCHANGED routeCache
    /\ UNCHANGED <<entry, body, cacheEnabled, pc, options, gi, geocoded, targetAddresses,
                   currentDepartureTime, remainingTargets, candidates, ci, outboundRoute,
                   roundTrip, deliveries, plan, error, response, planStore, nextId,
                   lastRequest, outboundRequest, lastRound, routeCalls, geocodeCalls,
                   inFlight, networkRequests, enabled, registryVars, run, previous,
                   storeVars,
                   limiterVars, probeVars>>

(* geocode(): the provider answered, cacheStore.set('geocode', ...) rejects. *)
GeocodeCacheWriteFailed ==
    /\ pc = "geocode"
    /\ cacheEnabled
    /\ ~CacheHit(geocodeCache, GeocodeCacheKey(options.provider, allAddresses[gi]))
    /\ LET thrown == Propagate(CacheWriteErrorWrapped(allAddresses[gi]))
       IN  /\ error' = thrown.error
           /\ pc' = thrown.pc
    /\ geocodeCalls' = geocodeCalls + 1
    /\ networkRequests' = networkRequests + 1
    /\ UNCHANGED <<requestVars, registryVars, options, gi, geocoded, geocodeCache,
                   targetAddresses, loopVars, routeVars, plan, response, planStore, nextId>>
    /\ inFlight' = Issued(pc', gi', ci')

(* calculateRoute(): the provider answered, the segment got its id,        *)
(* cacheStore.set('route', ...) rejects.                                   *)
RouteCacheWriteFailed ==
    /\ pc \in {"outbound", "return"}
    /\ cacheEnabled
    /\ ~CacheHit(routeCache, RouteCacheKey(options.provider, RouteRequest))
    /\ LET thrown == Propagate(CacheWriteError)
       IN  /\ error' = thrown.error
           /\ pc' = thrown.pc
    /\ lastRequest' = RouteRequest
    /\ nextId' = nextId + 1
    /\ routeCalls' = routeCalls + 1
    /\ networkRequests' = networkRequests + 1
    /\ UNCHANGED <<requestVars, registryVars, options, geocodeVars, targetAddresses, loopVars,
                   routeCache, plan, response, planStore>>
    /\ inFlight' = Issued(pc', gi', ci')

InitDisk ==
    /\ Init
    /\ cacheEnabled
    /\ body.provider = "here"
    /\ ~Has(body, "deliveryDurationMinutes")
    /\ Len(body.targets) = 2 <=> Has(body, "sortByTrafficDensity")
    /\ Len(body.targets) = 2 => entry = "direct" /\ body.targets[1] = body.targets[2]

NextDisk == Next \/ Corrupt \/ GeocodeCacheWriteFailed \/ RouteCacheWriteFailed

SpecDisk == InitDisk /\ [][NextDisk]_vars

----------------------------------------------------------------------------
(* CacheStore.get and CacheStore.set called by independent invocations on  *)
(* the files of one directory, with the clock of the process.  A value is  *)
(* named by the call that stored it.                                       *)

(* config.cache.ttlHours * 60 * 60 * 1000, scaled to the clock's grain. *)
ttlMs == TtlTicks * TickMs

(* Mutation of Expired: no entry is ever taken as expired. *)
ExpiredNever(cacheEntry, now) == FALSE

(* expiresAt < new Date() *)
Expired(cacheEntry, now) == cacheEntry.expiresAt < now

idleVars == <<entry, body, cacheEnabled, pc, options, gi, geocoded, targetAddresses,
              currentDepartureTime, remainingTargets, candidates, ci, outboundRoute,
              roundTrip, deliveries, plan, error, response, planStore, routeCache,
              nextId, lastRequest, outboundRequest, lastRound, routeCalls,
              inFlight, networkRequests, enabled, registryVars, run, previous,
              limiterVars, probeVars>>

otherVars == <<idleVars, geocodeCalls>>

(* set(): the entry is built from new Date(), then fs.writeFile is awaited. *)
SetBegin(c, k) ==
    /\ ops[c] = Idle
    /\ Cardinality(written) + Cardinality({d \in Callers : ops[d].pc = "writeFile"})
           < MaxSets
    /\ ops' = IF ~cacheEnabled THEN ops
              ELSE [ops EXCEPT ![c] =
                       [pc |-> "writeFile", key |-> k,
                        entry |-> [value |-> [by |-> c, at |-> dateNow],
                                   createdAt |-> dateNow,
                                   expiresAt |-> dateNow + ttlMs]]]
    /\ UNCHANGED <<files, written, lastRead, lookup, geocodeCache, otherVars>>

(* fs.writeFile completes: the file holds the entry, set() resolves. *)
SetWrite(c) ==
    /\ ops[c].pc = "writeFile"
    /\ files' = [files EXCEPT ![ops[c].key] = ops[c].entry]
    /\ written' = written \cup {[key |-> ops[c].key, entry |-> ops[c].entry,
                                 completed |-> dateNow,
                                 seq |-> Cardinality(written) + 1]}
    /\ ops' = [ops EXCEPT ![c] = Idle]
    /\ UNCHANGED <<lastRead, lookup, geocodeCache, otherVars>>

(* get() up to its return or to its await of this.delete(key): the enabled *)
(* check, fs.readFile, the parse, the comparison with new Date().          *)
GetRead(c, k) ==
    /\ ops[c] = Idle
    /\ IF ~cacheEnabled \/ files[k] = NoEntry
       THEN /\ lastRead' = [key |-> k, at |-> dateNow, result |-> Null, expired |-> FALSE]
            /\ UNCHANGED ops
       ELSE IF Expired(files[k], dateNow)
       THEN /\ ops' = [ops EXCEPT ![c] = [pc |-> "unlink", key |-> k, read |-> files[k]]]
            /\ UNCHANGED lastRead
       ELSE /\ lastRead' = [key |-> k, at |-> dateNow, result |-> files[k].value,
                       expired |-> FALSE]
            /\ UNCHANGED ops
    /\ UNCHANGED <<files, written, lookup, geocodeCache, otherVars>>

(* delete(key): fs.unlink removes the file at the path, get() returns null. *)
GetUnlink(c) ==
    /\ ops[c].pc = "unlink"
    /\ files' = [files EXCEPT ![ops[c].key] = NoEntry]
    /\ lastRead' = [key |-> ops[c].key, at |-> dateNow, result |-> Null, expired |-> TRUE]
    /\ ops' = [ops EXCEPT ![c] = Idle]
    /\ UNCHANGED <<written, lookup, geocodeCache, otherVars>>

(* No optimize() is running; the cache may be enabled or not. *)
InitStore ==
    /\ Init
    /\ entry = "direct"
    /\ body.provider = "here"
    /\ body.targets = <<>>
    /\ DOMAIN body = {"depot", "targets", "firstDepartureTime", "provider",
                      "googleTrafficModel"}

(* The clock, followed until an entry written after another one expired   *)
(* has itself reached its expiresAt.                                       *)
ClockAdvances ==
    /\ dateNow < StartTime + (2 * TtlTicks) * TickMs
    /\ Tick

NextStore ==
    \/ \E c \in Callers, k \in FileKeys : SetBegin(c, k)
    \/ \E c \in Callers : SetWrite(c)
    \/ \E c \in Callers, k \in FileKeys : GetRead(c, k)
    \/ \E c \in Callers : GetUnlink(c)
    \/ ClockAdvances

SpecStore == InitStore /\ [][NextStore]_vars

----------------------------------------------------------------------------
(* geocode() and reverseGeocode() of the three adapters, called on their   *)
(* own, each with the answer the provider gives to that call.              *)

(* A place across the border; the providers' address text for it is "V". *)
Abroad == [lat |-> 49, lng |-> -123]

(* The country code the adapter compares the first result with. *)
HomeCode(provider) == IF provider = "here" THEN "USA" ELSE "US"

(* First results: in the US, in Canada and, from Google, one whose        *)
(* address_components have no 'country' component.                         *)
HomeItem(provider, place) ==
    [countryCode |-> HomeCode(provider), countryName |-> "United States",
     position |-> Position[place], label |-> place]

ForeignItem(provider) ==
    [countryCode |-> IF provider = "here" THEN "CAN" ELSE "CA",
     countryName |-> "Canada", position |-> Abroad, label |-> "V"]

StatelessItem ==
    [countryCode |-> Undefined, countryName |-> Undefined,
     position |-> Abroad, label |-> "V"]

(* What the provider may answer when asked about a place: a non-2xx        *)
(* response, no result, or one first result.                               *)
Answers(provider, place) ==
    {[status |-> "error", items |-> <<>>], [status |-> "ok", items |-> <<>>]}
    \cup {[status |-> "ok", items |-> <<i>>] :
             i \in {HomeItem(provider, place), ForeignItem(provider)}
                   \cup (IF provider = "google" THEN {StatelessItem} ELSE {})}

(* Mutation of Accepted: the country of the result is not looked at. *)
AcceptedAnywhere(provider, item) == TRUE

(* countryCode !== 'US' ('USA' for HERE) throws. *)
Accepted(provider, item) == item.countryCode = HomeCode(provider)

(* The "(found: ...)" part of the out-of-region message. *)
Found(provider, item) ==
    IF provider = "google"
    THEN IF item.countryCode = Undefined THEN "unknown" ELSE item.countryCode
    ELSE item.countryName

ReverseCacheKey(provider, coordinates) ==
    [provider |-> provider, type |-> "reverse",
     lat |-> coordinates.lat, lng |-> coordinates.lng]

(* The part of a call after the cache miss: what is thrown or returned,    *)
(* and whether cacheStore.set is reached.  value is the GeocodedAddress    *)
(* built from the first result.                                            *)
Resolve(kind, provider, key, answer, value) ==
    LET base == [kind |-> kind, provider |-> provider, key |-> key, cached |-> FALSE,
                 answer |-> answer, found |-> Undefined, result |-> NoSegment]
    IN  IF answer.status = "error"
        THEN base @@ [threw |-> TRUE, message |-> "API error"]
        ELSE IF Len(answer.items) = 0
        THEN base @@ [threw |-> TRUE, message |-> "No results found"]
        ELSE IF ~Accepted(provider, answer.items[1])
        THEN [base EXCEPT !.found = Found(provider, answer.items[1])]
             @@ [threw |-> TRUE, message |-> "not in the US"]
        ELSE [base EXCEPT !.result = value] @@ [threw |-> FALSE, message |-> "none"]

Served(kind, provider, key, value) ==
    [kind |-> kind, provider |-> provider, key |-> key, cached |-> TRUE,
     answer |-> [status |-> "none", items |-> <<>>], found |-> Undefined, result |-> value,
     threw |-> FALSE, message |-> "none"]

(* One call of geocode() or reverseGeocode(), given what it does on a hit  *)
(* and on a miss.  repeat (observer): the call before this one had the     *)
(* same cache key and threw.                                               *)
Lookup(key, hit, miss) ==
    /\ geocodeCalls < MaxLookups
    /\ geocodeCalls' = geocodeCalls + 1
    /\ IF CacheHit(geocodeCache, key)
       THEN /\ lookup' = hit @@ [repeat |-> FALSE]
            /\ UNCHANGED geocodeCache
       ELSE /\ lookup' = miss @@ [repeat |-> lookup # NoLookup /\ lookup.key = key
                                                /\ lookup.threw]
            /\ geocodeCache' = IF miss.threw THEN geocodeCache
                               ELSE CacheSet(geocodeCache, key, miss.result)
    /\ UNCHANGED <<files, ops, written, lastRead, idleVars>>

Geocode(provider, input) ==
    \E answer \in Answers(provider, input.address) :
        LET key == GeocodeCacheKey(provider, input)
            geocodedAddress ==
                IF Len(answer.items) = 0 THEN NoSegment
                ELSE [address |-> input.address, label |-> input.label,
                      coordinates |-> answer.items[1].position]
        IN  Lookup(key,
                   Served("geocode", provider, key, CacheGet(geocodeCache, key)),
                   Resolve("geocode", provider, key, answer, geocodedAddress))

ReverseGeocode(provider, place, label) ==
    \E answer \in Answers(provider, place) :
        LET coordinates == Position[place]
            key == ReverseCacheKey(provider, coordinates)
            geocodedAddress ==
                IF Len(answer.items) = 0 THEN NoSegment
                ELSE [address |-> answer.items[1].label, label |-> label,
                      coordinates |-> coordinates]
        IN  Lookup(key,
                   Served("reverse", provider, key,
                          [CacheGet(geocodeCache, key) EXCEPT !.label = label]),
                   Resolve("reverse", provider, key, answer, geocodedAddress))

InitGeocode == InitStore

NextGeocode ==
    \/ \E provider \in Providers, input \in TargetInputs : Geocode(provider, input)
    \/ \E provider \in Providers, place \in {"A", "B"}, label \in {Undefined, "x"} :
          ReverseGeocode(provider, place, label)

SpecGeocode == InitGeocode /\ [][NextGeocode]_vars

----------------------------------------------------------------------------
(* Properties                                                              *)

(* The caller's inputs, read from the request itself. *)
N == Len(body.targets)

Greedy == entry = "direct" /\ Has(body, "sortByTrafficDensity") /\ body.sortByTrafficDensity

ServiceMinutes ==
    IF Has(body, "deliveryDurationMinutes") THEN body.deliveryDurationMinutes ELSE 15

(* Every RouteSegment an adapter has returned and that is still held. *)
SegmentsHeld ==
    {e.data : e \in routeCache}
        \cup (IF outboundRoute = NoSegment THEN {} ELSE {outboundRoute})
        \cup {candidates[i].outboundRoute : i \in 1..Len(candidates)}
        \cup {candidates[i].returnRoute : i \in 1..Len(candidates)}
        \cup {deliveries[i].route : i \in 1..Len(deliveries)}
        \cup {deliveries[i].returnRoute : i \in 1..Len(deliveries)}

LegTimes(x) == x.outboundRoute.travelTimeSeconds + x.returnRoute.travelTimeSeconds

DeliveryTimes(d) == d.route.travelTimeSeconds + d.returnRoute.travelTimeSeconds

LastDelivery == deliveries[Len(deliveries)]

(* C1: every RouteSegment returned by calculateRoute of any adapter has    *)
(* trafficDensity >= 1.0, also when the traffic time is below the baseline *)
(* the adapter picks.                                                      *)
C1_DensityAtLeastOne == \A seg \in SegmentsHeld : seg.trafficDensity >= 1000

C3_OrdersContiguous ==
    plan # NoPlan =>
        /\ Len(plan.deliveries) = N
        /\ \A k \in 1..Len(plan.deliveries) : plan.deliveries[k].order = k

C3_Witness == plan # NoPlan /\ Greedy /\ Len(plan.deliveries) >= 2

C5_AverageExact ==
    (plan # NoPlan /\ plan.totalNoTrafficTravelTimeSeconds > 0) =>
        plan.averageTrafficDensity * plan.totalNoTrafficTravelTimeSeconds
            = 1000 * Max(plan.totalTravelTimeSeconds,
                         plan.totalNoTrafficTravelTimeSeconds)

(* C5 amended: averageTrafficDensity is max(1.0, total / baseline) rounded *)
(* to the nearest thousandth (half up), the totals being the sums over all *)
(* deliveries of both legs; it is 1.0 when the baseline total is 0.        *)
C5_AverageRounded ==
    plan # NoPlan =>
        LET total == SeqSum([i \in 1..Len(plan.deliveries) |->
                               DeliveryTimes(plan.deliveries[i])])
            baseline == SeqSum([i \in 1..Len(plan.deliveries) |->
                               plan.deliveries[i].route.noTrafficTravelTimeSeconds
                                 + plan.deliveries[i].returnRoute.noTrafficTravelTimeSeconds])
            exact == 1000 * Max(total, baseline)
            stored == plan.averageTrafficDensity * baseline
        IN  /\ plan.totalTravelTimeSeconds = total
            /\ plan.totalNoTrafficTravelTimeSeconds = baseline
            /\ baseline = 0 => plan.averageTrafficDensity = 1000
            /\ baseline > 0 => /\ 2 * (exact - stored) <= baseline
                               /\ 2 * (stored - exact) < baseline
            /\ total < baseline => plan.averageTrafficDensity = 1000

(* A plan whose ratio is above 1.0, not a whole number of thousandths, and *)
(* not the mean of the deliveries' densities.                              *)
C5_Witness ==
    /\ plan # NoPlan
    /\ Len(plan.deliveries) = 2
    /\ plan.totalTravelTimeSeconds > plan.totalNoTrafficTravelTimeSeconds
    /\ (1000 * plan.totalTravelTimeSeconds) % plan.totalNoTrafficTravelTimeSeconds # 0
    /\ 2 * plan.averageTrafficDensity #
           plan.deliveries[1].roundTripTrafficDensity
               + plan.deliveries[2].roundTripTrafficDensity

(* C6: the departureTime passed to calculateRoute for a return leg is the  *)
(* arrivalTime of the outbound segment just received plus                  *)
(* deliveryDurationMinutes minutes (15 when omitted): for the request in   *)
(* hand and for every round trip computed.                                 *)
C6_ReturnDeparture ==
    /\ lastRequest.leg = "return" =>
          DateParse(lastRequest.departureTime)
              = DateParse(outboundRoute.arrivalTime) + ServiceMinutes * 60000
    /\ \A i \in 1..Len(candidates) :
          DateParse(candidates[i].requested.return)
              = DateParse(candidates[i].outboundRoute.arrivalTime) + ServiceMinutes * 60000
    /\ \A i \in 1..Len(deliveries) :
          DateParse(deliveries[i].requested.return)
              = DateParse(deliveries[i].route.arrivalTime) + ServiceMinutes * 60000

C6_Witness ==
    /\ lastRequest.leg = "return"
    /\ ~Has(body, "deliveryDurationMinutes")
    /\ Greedy
    /\ Len(candidates) = 1
    /\ Len(deliveries) = 0
    /\ pc = "outbound"

(* C7: delivery 1 departs at firstDepartureTime, delivery i+1 departs at   *)
(* the return time of delivery i, each recorded outbound leg was requested *)
(* for the delivery's estimatedDepartureTime, and the clock stands at the  *)
(* return arrival of the last delivery appended.                           *)
C7_ClockChain ==
    /\ Len(deliveries) >= 1 =>
          /\ DateParse(deliveries[1].estimatedDepartureTime)
                 = DateParse(body.firstDepartureTime)
          /\ currentDepartureTime = DateParse(LastDelivery.returnRoute.arrivalTime)
    /\ \A i \in 1..(Len(deliveries) - 1) :
          deliveries[i + 1].estimatedDepartureTime = deliveries[i].estimatedReturnTime
    /\ \A i \in 1..Len(deliveries) :
          /\ deliveries[i].requested.outbound = deliveries[i].estimatedDepartureTime
          /\ DateParse(deliveries[i].estimatedReturnTime)
                 = DateParse(deliveries[i].returnRoute.arrivalTime)

C7_Witness == Len(deliveries) >= 2 /\ Greedy

C9_FailureLeavesNoPlan ==
    /\ error # NoError =>
          /\ plan = NoPlan
          /\ planStore = {}
          /\ pc \in {"rejected", "done"}
          /\ response \in {0, 500}
    /\ \A p \in planStore : Len(p.deliveries) = N

C9_Witness ==
    /\ error # NoError
    /\ error.stage = "route"
    /\ Len(deliveries) >= 1
    /\ response = 500

(* C10: the error optimize() rejects with after a failed leg names the     *)
(* origin and the destination of that leg.                                 *)
C10_ErrorNamesLeg ==
    (error # NoError /\ error.stage = "route") =>
        {lastRequest.origin.address, lastRequest.destination.address}
            \subseteq error.names

(* C11: optimize() rejects an empty target list, more than 50 targets or a *)
(* non-positive service duration before any geocode or route call, and     *)
(* never builds a plan from them.                                          *)
C11_MalformedInputRejected ==
    (\/ N = 0
     \/ N > 50
     \/ (Has(body, "deliveryDurationMinutes") /\ body.deliveryDurationMinutes <= 0)) =>
        /\ plan = NoPlan
        /\ geocodeCalls = 0
        /\ routeCalls = 0

(* C20: geocodeMultiple geocodes its inputs one at a time in input order;  *)
(* the first failing input ends it with an error naming that input's       *)
(* address text, no later input is geocoded and no map reaches optimize(). *)
C20_GeocodeMultipleShortCircuits ==
    /\ pc = "geocode" =>
          /\ geocodeCalls = gi - 1
          /\ DOMAIN geocoded = {allAddresses[i].address : i \in 1..(gi - 1)}
    /\ (error # NoError /\ error.stage = "geocode") =>
          /\ error.names = {allAddresses[gi].address}
          /\ geocodeCalls = gi
          /\ DOMAIN geocoded = {allAddresses[i].address : i \in 1..(gi - 1)}
          /\ targetAddresses = <<>>
          /\ routeCalls = 0
          /\ plan = NoPlan

C20_Witness ==
    /\ error # NoError
    /\ error.stage = "geocode"
    /\ gi = 2
    /\ Len(allAddresses) = 3
    /\ allAddresses[3].address # allAddresses[2].address

(* C13: within one optimize() at most one provider call is in flight; all  *)
(* geocoding has completed before the first route call is made; a return   *)
(* leg is requested only after the outbound leg of the same round trip has *)
(* returned.                                                               *)
C13_OneCallAtATime ==
    /\ Cardinality(inFlight) <= 1
    /\ inFlight # {} <=> pc \in {"geocode", "outbound", "return"}
    /\ routeCalls > 0 => geocodeCalls = N + 1
    /\ \A c \in inFlight :
          /\ c.kind = "geocode" => (routeCalls = 0 /\ geocodeCalls = c.index - 1)
          /\ c.kind = "route" => geocodeCalls = N + 1
          /\ c.leg = "outbound" => routeCalls % 2 = 0
          /\ c.leg = "return" =>
                /\ routeCalls % 2 = 1
                /\ lastRequest = outboundRequest
                /\ outboundRequest.leg = "outbound"
                /\ outboundRoute.destination = CurrentTarget
                /\ outboundRoute.destination = outboundRequest.destination

C13_Witness ==
    /\ Greedy
    /\ inFlight = {[kind |-> "route", leg |-> "return", index |-> 2]}
    /\ Len(deliveries) = 0

(* C12: any two network requests of one adapter instance start at least    *)
(* minRequestInterval (250 ms) apart, whatever operations share it.        *)
C12_RequestsSpaced ==
    \A i, j \in 1..Len(sent) : i < j => sent[j] - sent[i] >= 250

(* C16: the geocoding cache is keyed on (provider id, address text) only:  *)
(* it never holds two entries for one address text on one provider, a      *)
(* later geocode of a cached address text being a hit whatever its label.  *)
C16_GeocodeKeyedOnAddress ==
    \A e1, e2 \in geocodeCache :
        (e1.key.provider = e2.key.provider /\ e1.key.address = e2.key.address)
            => e1 = e2

(* C17: two calculateRoute calls share a cache entry exactly when they     *)
(* agree on provider, origin coordinates, destination coordinates,         *)
(* departure timestamp and, on Google only, traffic model, an omitted      *)
(* model counting as best_guess.                                           *)
C17_RouteKeyAgreement ==
    probeKeys # <<>> =>
        LET a == probes[1]
            b == probes[2]
            model(m) == IF m = Undefined THEN "best_guess" ELSE m
        IN  probeKeys[1] = probeKeys[2] <=>
               /\ a.provider = b.provider
               /\ a.request.origin.coordinates = b.request.origin.coordinates
               /\ a.request.destination.coordinates = b.request.destination.coordinates
               /\ a.request.departureTime = b.request.departureTime
               /\ a.provider = "google" =>
                     model(a.request.googleTrafficModel)
                         = model(b.request.googleTrafficModel)

(* Two Google calls, one without a traffic model and one with best_guess,  *)
(* from endpoints that differ in label only, share the entry.              *)
C17_Witness ==
    /\ probeKeys # <<>>
    /\ probeKeys[1] = probeKeys[2]
    /\ probes[1].provider = "google"
    /\ probes[1].request.googleTrafficModel = Undefined
    /\ probes[2].request.googleTrafficModel = "best_guess"
    /\ probes[1].request.origin.label # probes[2].request.origin.label

(* The provider id a getProvider argument stands for. *)
Resolved(type) ==
    IF type = Undefined
    THEN (IF "tomtom" \in enabled THEN "tomtom" ELSE "here")
    ELSE type

(* C18: at most one adapter is ever constructed per provider id, and every *)
(* successful getProvider for that id, explicit or by default, returns     *)
(* that one instance.                                                      *)
C18_OneAdapterPerProvider ==
    /\ \A p \in {"tomtom", "here", "google"} :
          /\ constructed[p] <= 1
          /\ p \in DOMAIN providers <=> constructed[p] = 1
          /\ p \in DOMAIN providers => providers[p] = [name |-> p, serial |-> 1]
    /\ (lastGet.type # "none" /\ ~lastGet.threw) =>
          lastGet.instance = [name |-> Resolved(lastGet.type), serial |-> 1]

C18_Witness ==
    /\ lastGet.type = Undefined
    /\ ~lastGet.threw
    /\ pc = "outbound"
    /\ options.provider = lastGet.instance.name
    /\ Cardinality(DOMAIN providers) = 2

(* C19: getProvider for a provider without credentials or for an unknown   *)
(* id throws, constructs and caches nothing and never returns another      *)
(* provider's adapter; optimize() with such a provider fails before any    *)
(* geocode or route call.                                                  *)
C19_UnavailableProviderThrows ==
    /\ lastGet.type # "none" =>
          (lastGet.threw <=> Resolved(lastGet.type) \notin enabled)
    /\ ~lastGet.threw => lastGet.instance.name \in {"none", Resolved(lastGet.type)}
    /\ DOMAIN providers \subseteq enabled
    /\ \A p \in {"tomtom", "here", "google"} : p \notin enabled => constructed[p] = 0
    /\ (body.provider \notin enabled /\ pc # "start" /\ response # 400) =>
          /\ error # NoError
          /\ error.stage = "provider"
          /\ pc \in {"rejected", "done"}
          /\ geocodeCalls = 0
          /\ routeCalls = 0
          /\ networkRequests = 0
          /\ plan = NoPlan
          /\ planStore = {}

C19_Witness ==
    /\ body.provider = "here"
    /\ "here" \notin enabled
    /\ response = 500
    /\ error.stage = "provider"
    /\ lastGet.type = "mapbox"
    /\ lastGet.threw
    /\ DOMAIN providers = {"tomtom"}

(* C14: with the cache enabled and nothing expired, a second call with the *)
(* same input as a completed first call takes every geocode and route      *)
(* result from the cache unchanged, segment ids included, and sends no     *)
(* network request; the plans differ in their id only.                     *)
C14_WarmCacheIdempotent ==
    run = 2 =>
        /\ networkRequests = previous.networkRequests
        /\ routeCache = previous.routeCache
        /\ geocodeCache = previous.geocodeCache
        /\ error = NoError
        /\ pc # "rejected"
        /\ \A i \in 1..Len(deliveries) : deliveries[i] = previous.plan.deliveries[i]
        /\ plan # NoPlan =>
              /\ plan.id # previous.plan.id
              /\ plan.deliveries = previous.plan.deliveries
              /\ [plan EXCEPT !.id = previous.plan.id] = previous.plan

C14_Witness ==
    /\ run = 2
    /\ plan # NoPlan
    /\ Len(plan.deliveries) = 2
    /\ previous.networkRequests >= 6
    /\ response = 200

(* C15: no failure inside cacheStore.get or cacheStore.set is ever what an *)
(* adapter operation or optimize() fails with.                             *)
C15_CacheNeverRaises ==
    error # NoError => error.stage # "cache"

(* The sum over the deliveries of both recorded legs' value of one field. *)
BothLegs(ds, field) ==
    LET S[i \in 0..Len(ds)] ==
            IF i = 0 THEN 0
            ELSE S[i - 1] + ds[i].route[field] + ds[i].returnRoute[field]
    IN  S[Len(ds)]

RoundTripDensities(ds) ==
    LET S[i \in 0..Len(ds)] ==
            IF i = 0 THEN 0 ELSE S[i - 1] + ds[i].roundTripTrafficDensity
    IN  S[Len(ds)]

(* C22: the three totals of a plan are the sums over its deliveries of the *)
(* outbound plus return values of the segments the plan records, and       *)
(* cumulativeTrafficDensity is the sum of the deliveries' round-trip       *)
(* densities.                                                              *)
C22_TotalsAreSums ==
    plan # NoPlan =>
        /\ plan.totalDistanceMeters = BothLegs(plan.deliveries, "distanceMeters")
        /\ plan.totalTravelTimeSeconds = BothLegs(plan.deliveries, "travelTimeSeconds")
        /\ plan.totalNoTrafficTravelTimeSeconds =
               BothLegs(plan.deliveries, "noTrafficTravelTimeSeconds")
        /\ plan.cumulativeTrafficDensity = RoundTripDensities(plan.deliveries)

(* Two deliveries whose legs are not all alike. *)
C22_Witness ==
    /\ plan # NoPlan
    /\ Len(plan.deliveries) = 2
    /\ plan.totalDistanceMeters = 5000 + 7000 + 7000 + 7000
    /\ plan.cumulativeTrafficDensity >
           Max(plan.deliveries[1].roundTripTrafficDensity,
               plan.deliveries[2].roundTripTrafficDensity)

(* Every round trip computed: candidates, the one in hand, the deliveries. *)
RoundTripsHeld ==
    {[outbound |-> candidates[i].outboundRoute, return |-> candidates[i].returnRoute,
      density |-> candidates[i].roundTripTrafficDensity] : i \in 1..Len(candidates)}
    \cup {[outbound |-> deliveries[i].route, return |-> deliveries[i].returnRoute,
           density |-> deliveries[i].roundTripTrafficDensity] : i \in 1..Len(deliveries)}
    \cup (IF ~Has(roundTrip, "outboundRoute") THEN {}
          ELSE {[outbound |-> roundTrip.outboundRoute, return |-> roundTrip.returnRoute,
                 density |-> roundTrip.roundTripTrafficDensity]})

(* C23: a round trip's density is the mean of its two legs' densities      *)
(* rounded to a nearest thousandth, never clamped, and is at least 1.0     *)
(* when both legs are.                                                     *)
C23_RoundTripDensityIsMean ==
    \A rt \in RoundTripsHeld :
        LET twice == rt.outbound.trafficDensity + rt.return.trafficDensity
        IN  /\ 2 * rt.density \in {twice - 1, twice, twice + 1}
            /\ (rt.outbound.trafficDensity >= 1000 /\ rt.return.trafficDensity >= 1000)
                   => rt.density >= 1000

(* A delivery whose legs are both at 1.0 or above, and one whose mean is   *)
(* below 1.0 and stays there.                                              *)
C23_Witness ==
    /\ Len(deliveries) = 2
    /\ \E i, j \in 1..2 :
          /\ deliveries[i].route.trafficDensity > 1000
          /\ deliveries[i].returnRoute.trafficDensity > 1000
          /\ deliveries[i].roundTripTrafficDensity > 1000
          /\ deliveries[j].roundTripTrafficDensity < 1000

(* How many entries of a sequence of addresses are the input t: the same   *)
(* address text and the same label.                                        *)
Occurrences(seq, t) ==
    Cardinality({i \in 1..Len(seq) : seq[i].address = t.address /\ seq[i].label = t.label})

Delivered == [i \in 1..Len(deliveries) |-> deliveries[i].target.address]

(* C24: in greedy mode, at the start of every round and at the end, the    *)
(* targets delivered so far together with the working set are exactly the  *)
(* caller's targets, each as often as the caller listed it; the loop ends   *)
(* after N rounds with N deliveries.                                       *)
C24_GreedyDeliversEachOnce ==
    (Greedy /\ options # NoOptions /\ ci = 1 /\ pc \in {"outbound", "dayType", "resolved"}) =>
        /\ Len(deliveries) + Len(remainingTargets) = N
        /\ pc # "outbound" => Len(deliveries) = N
        /\ \A t \in {body.targets[i] : i \in 1..N} :
              Occurrences(body.targets, t)
                  = Occurrences(Delivered, t) + Occurrences(remainingTargets, t)

(* The candidates of the round that a step completes, in the order they    *)
(* were computed: one per remaining target, in the working set's order.    *)
RoundCompleted == Append(candidates, roundTrip')

FirstFastest(round) ==
    CHOOSE k \in 1..Len(round) :
        /\ \A j \in 1..Len(round) : LegTimes(round[k]) <= LegTimes(round[j])
        /\ \A j \in 1..(k - 1) : LegTimes(round[j]) > LegTimes(round[k])

(* C27: in greedy mode the delivery a round appends is the first, in the   *)
(* order of the remaining targets (which is the caller's), of the          *)
(* candidates with the smallest outbound + return travel time, and one     *)
(* entry equal to that target leaves the working set, the others keeping   *)
(* their order.                                                            *)
C27_TiesGoToFirst ==
    [][(Has(options, "sortByTrafficDensity") /\ options.sortByTrafficDensity
          /\ Len(deliveries') = Len(deliveries) + 1)
       => LET k == FirstFastest(RoundCompleted)
              chosen == RoundCompleted[k]
              appended == deliveries'[Len(deliveries')]
          IN  /\ Len(RoundCompleted) = Len(remainingTargets)
              /\ \A i \in 1..Len(remainingTargets) :
                    RoundCompleted[i].target = remainingTargets[i]
              /\ appended.target.address = chosen.target
              /\ appended.route = chosen.outboundRoute
              /\ appended.returnRoute = chosen.returnRoute
              /\ \E m \in 1..Len(remainingTargets) :
                    /\ remainingTargets[m] = chosen.target
                    /\ Len(remainingTargets') = Len(remainingTargets) - 1
                    /\ \A i \in 1..Len(remainingTargets') :
                          remainingTargets'[i] =
                              remainingTargets[IF i < m THEN i ELSE i + 1]]_vars

(* A round of two different targets with equal times: the caller's first   *)
(* was taken, here B listed before A.                                      *)
C27_Witness ==
    /\ Len(lastRound) = 2
    /\ LegTimes(lastRound[1]) = LegTimes(lastRound[2])
    /\ lastRound[1].target.address = "B"
    /\ lastRound[2].target.address = "A"
    /\ body.targets[1].address = "B"
    /\ Len(deliveries) = 1
    /\ deliveries[1].target.address.address = "B"
    /\ deliveries[1].route = lastRound[1].outboundRoute

(* C30: a segment calculateRoute returned, fresh or cached, has the origin *)
(* and the destination of the request it answered, address text and label  *)
(* included: each outbound segment of a delivery ends at the delivery's    *)
(* own target and starts at the depot, each return segment the reverse.    *)
C30_SegmentEndpointsAreRequested ==
    /\ outboundRoute # NoSegment =>
          /\ outboundRoute.origin = outboundRequest.origin
          /\ outboundRoute.destination = outboundRequest.destination
    /\ \A i \in 1..Len(deliveries) :
          /\ deliveries[i].route.origin = depotGeocoded
          /\ deliveries[i].route.destination = deliveries[i].target.address
          /\ deliveries[i].returnRoute.origin = deliveries[i].target.address
          /\ deliveries[i].returnRoute.destination = depotGeocoded

(* C29: what the caller chose reaches optimize() through POST /optimize: a *)
(* well-formed request is not refused for its provider, optimize() gets    *)
(* the request's provider and traffic model, and a request with            *)
(* sortByTrafficDensity = true is planned greedily.                        *)
C29_OptionsReachOptimizer ==
    (entry = "http" /\ pc # "start" /\ N >= 1) =>
        /\ response # 400
        /\ options.provider = body.provider
        /\ options.googleTrafficModel = body.googleTrafficModel
        /\ (Has(body, "sortByTrafficDensity") /\ body.sortByTrafficDensity)
               => options.sortByTrafficDensity

(* C28: a plan optimize() returned and planStore.save wrote is read back:  *)
(* planStore.get(plan.id) is that plan and planStore.list() includes it.   *)
C28_SavedPlanReadsBack ==
    \A p \in planStore :
        /\ PlanStoreGet(p.id) = p
        /\ p \in PlanStoreList

C26_CompletedSetNotLost ==
    \A w \in written :
        (/\ \A v \in written : v.key = w.key => v.seq <= w.seq
         /\ dateNow <= w.entry.expiresAt)
        => files[w.key] = w.entry

FromAbroad(data) == data.coordinates = Abroad \/ data.address = "V"

(* C21: geocode() and reverseGeocode() of every adapter throw when the     *)
(* provider returns no result or a first result outside the US, the        *)
(* out-of-region error naming the country found; nothing rejected is in    *)
(* the cache, so the rejected input has no cache entry afterwards and a    *)
(* call served from the cache returns only a result that was accepted.     *)
C21_RejectedNeverCached ==
    /\ \A e \in geocodeCache : ~FromAbroad(e.data)
    /\ (lookup # NoLookup /\ lookup.cached) =>
          ~lookup.threw /\ ~FromAbroad(lookup.result)
    /\ (lookup # NoLookup /\ lookup.repeat) => ~lookup.cached
    /\ (lookup # NoLookup /\ ~lookup.cached /\ lookup.answer.status = "ok") =>
          LET items == lookup.answer.items
          IN  (Len(items) = 0 \/ items[1].countryName # "United States") =>
                 /\ lookup.threw
                 /\ \A e \in geocodeCache : e.key # lookup.key
                 /\ (Len(items) > 0 /\ items[1].countryName # Undefined) =>
                        lookup.found \in {items[1].countryName, items[1].countryCode}

(* With the cache enabled and holding an accepted result, an input that   *)
(* was rejected is asked again and rejected again for its country.         *)
C21_Witness ==
    /\ cacheEnabled
    /\ lookup # NoLookup
    /\ lookup.repeat
    /\ lookup.threw
    /\ lookup.found = "Canada"
    /\ \E e \in geocodeCache : e.key.provider = lookup.provider

====
